---- MODULE Spec2Model ----
(***************************************************************************)
(* Technician arrival dashboard (app.py): the script's run over the two    *)
(* input files, and its three pure functions calculate_distance,           *)
(* find_arrival_time and get_arrival_status.                               *)
(*                                                                         *)
(* Representation of values:                                               *)
(*   - a timestamp is a number of seconds since midnight of the day of the *)
(*     data; a timestamp cell of a CSV file is the text <<hh, mm, ss>>;    *)
(*   - a coordinate is an integer number of grid steps, GridPerDegree      *)
(*     steps to the degree (one step is 10 m under the factor of line 48); *)
(*   - a distance in meters is rounded up to the whole meter, which keeps  *)
(*     every comparison against a whole number of meters exact;            *)
(*   - a float number of minutes is the fraction [num, den]; NaN is 0/0;   *)
(*   - None and NaT are the value None, which is no timestamp;             *)
(*   - a DataFrame is [loaded, rows]: loaded is FALSE for Python's None.   *)
(***************************************************************************)
EXTENDS Integers, Sequences, FiniteSets, TLC

VARIABLES
    schedule_csv,       \* schedule.csv on disk: [exists, rows]
    gps_csv,            \* gps.csv on disk: [exists, rows]
    pc,                 \* position of the script
    schedules,          \* module-level DataFrame (line 111)
    gps_data,           \* module-level DataFrame (line 111)
    sidebar,            \* st.sidebar.success / st.sidebar.error messages
    page,               \* st.success / st.warning / st.error messages
    selected_techs,     \* value of the multiselect (line 132)
    filtered_schedules, \* rows of the selected technicians (line 140)
    actual_arrivals,    \* list built by the loop (line 147)
    tech_gps,           \* find_arrival_time's local frame of its last call
    n_calls,            \* number of calls of find_arrival_time so far
    fn,                 \* function applied on its own: its name
    args,               \* ... its arguments
    ret                 \* ... its return value

vars == <<schedule_csv, gps_csv, pc, schedules, gps_data, sidebar, page,
          selected_techs, filtered_schedules, actual_arrivals, tech_gps,
          n_calls, fn, args, ret>>

----------------------------------------------------------------------------
(* Bounds and value universes *)

MaxPings == 2
MaxJobs == 2
MaxArgPings == 2

None == -1

GridPerDegree == 111 * 100

Technicians == {"T1", "T2"}

\* timestamp cells of the files
ScheduleClock == {<<9, 0, 0>>}
GpsClock == {<<7, 0, 0>>, <<9, 12, 0>>, <<11, 0, 0>>, <<11, 0, 1>>}

\* a job site and the pings' places: the site itself and a place 110 m away
SiteLat == 37 * GridPerDegree
SiteLon == (-122) * GridPerDegree
GpsPlaces == {<<SiteLat, SiteLon>>, <<SiteLat + 11, SiteLon>>}

Min(S) == CHOOSE x \in S : \A y \in S : x <= y

SeqsUpTo(S, n) == UNION {[1..k -> S] : k \in 0..n}

----------------------------------------------------------------------------
(* calculate_distance, lines 42-49 *)

MetersPerDegree == 111000

\* the least n in lo..hi with n * n >= x
RECURSIVE SqrtSearch(_, _, _)
SqrtSearch(x, lo, hi) ==
    IF lo >= hi THEN lo
    ELSE LET mid == (lo + hi) \div 2
         IN  IF mid * mid >= x THEN SqrtSearch(x, lo, mid)
             ELSE SqrtSearch(x, mid + 1, hi)

\* x ** 0.5, rounded up
CeilSqrt(x) == SqrtSearch(x, 0, x)

\* line 47 without the squares
calculate_distance_unsquared(lat1, lon1, lat2, lon2) ==
    LET lat_diff == lat1 - lat2
        lon_diff == lon1 - lon2
        meters_per_step == MetersPerDegree \div GridPerDegree
    IN  (lat_diff + lon_diff) * meters_per_step

calculate_distance(lat1, lon1, lat2, lon2) ==
    LET lat_diff == lat1 - lat2
        lon_diff == lon1 - lon2
        \* distance_degrees squared, in grid steps
        sq_steps == lat_diff * lat_diff + lon_diff * lon_diff
        meters_per_step == MetersPerDegree \div GridPerDegree
    IN  CeilSqrt(sq_steps * meters_per_step * meters_per_step)

----------------------------------------------------------------------------
(* find_arrival_time, lines 52-82 *)

\* pd.Timedelta(hours=h), in seconds
Timedelta(h) == h * 3600

WindowHours == 2
CloseMeters == 100

\* lines 62-63 with < and > for <= and >=
InWindow_strict(row, tech_id, scheduled_time) ==
    LET time_window_start == scheduled_time - Timedelta(WindowHours)
        time_window_end == scheduled_time + Timedelta(WindowHours)
    IN  /\ row.technician_id = tech_id
        /\ row.timestamp > time_window_start
        /\ row.timestamp < time_window_end

\* lines 62-63 left out: every ping of the technician
InWindow_anytime(row, tech_id, scheduled_time) ==
    row.technician_id = tech_id

\* lines 60-64: the technician's rows inside the window
InWindow(row, tech_id, scheduled_time) ==
    LET time_window_start == scheduled_time - Timedelta(WindowHours)
        time_window_end == scheduled_time + Timedelta(WindowHours)
    IN  /\ row.technician_id = tech_id
        /\ row.timestamp >= time_window_start
        /\ row.timestamp <= time_window_end

\* lines 60-74: the filtered rows, copied, with their 'distance' column
TechGps(gps_rows, tech_id, job_lat, job_lon, scheduled_time) ==
    LET Test(row) == InWindow(row, tech_id, scheduled_time)
        filtered == SelectSeq(gps_rows, Test)
    IN  [k \in DOMAIN filtered |->
            [technician_id |-> filtered[k].technician_id,
             timestamp |-> filtered[k].timestamp,
             latitude |-> filtered[k].latitude,
             longitude |-> filtered[k].longitude,
             distance |-> calculate_distance(filtered[k].latitude,
                              filtered[k].longitude, job_lat, job_lon)]]

\* line 77 with < for <=
IsClose_strict(row) == row.distance < CloseMeters

\* line 77
IsClose(row) == row.distance <= CloseMeters

\* lines 66-82, from the local frame
ArrivalOf(local) ==
    IF local = <<>> THEN None
    ELSE LET close_points == SelectSeq(local, IsClose)
         IN  IF close_points # <<>>
             THEN Min({close_points[k].timestamp : k \in DOMAIN close_points})
             ELSE None

find_arrival_time(gps_rows, tech_id, job_lat, job_lon, scheduled_time) ==
    ArrivalOf(TechGps(gps_rows, tech_id, job_lat, job_lon, scheduled_time))

----------------------------------------------------------------------------
(* get_arrival_status, lines 85-96 *)

NaN == [num |-> 0, den |-> 0]

isna(x) == x.den = 0

\* x <= k for a fraction x with den > 0 and an integer k
Leq(x, k) == x.num <= k * x.den

\* x < k: the mistaken comparison
Less(x, k) == x.num < k * x.den

EarlyLimit == -5
OnTimeLimit == 5
LateLimit == 30

\* lines 89-93 with < for <=
get_arrival_status_strict(delay_minutes) ==
    IF isna(delay_minutes) THEN "No GPS Data"
    ELSE IF Less(delay_minutes, EarlyLimit) THEN "Early"
    ELSE IF Less(delay_minutes, OnTimeLimit) THEN "On Time"
    ELSE IF Less(delay_minutes, LateLimit) THEN "Late"
    ELSE "Very Late"

get_arrival_status(delay_minutes) ==
    IF isna(delay_minutes) THEN "No GPS Data"
    ELSE IF Leq(delay_minutes, EarlyLimit) THEN "Early"
    ELSE IF Leq(delay_minutes, OnTimeLimit) THEN "On Time"
    ELSE IF Leq(delay_minutes, LateLimit) THEN "Late"
    ELSE "Very Late"

----------------------------------------------------------------------------
(* The input files *)

\* pd.to_datetime of a timestamp cell (lines 116-117)
to_datetime(cell) == cell[1] * 3600 + cell[2] * 60 + cell[3]

NoFrame == [loaded |-> FALSE, rows |-> <<>>]

Frame(rows) == [loaded |-> TRUE, rows |-> rows]

GpsRows ==
    [technician_id : Technicians, timestamp : GpsClock,
     latitude : {p[1] : p \in GpsPlaces}, longitude : {p[2] : p \in GpsPlaces}]

\* job_id is the row's number: unique in the file
ScheduleTables ==
    {[k \in DOMAIN t |->
        [technician_id |-> t[k][1], job_id |-> k,
         job_latitude |-> SiteLat, job_longitude |-> SiteLon,
         scheduled_start |-> t[k][2]]] :
     t \in SeqsUpTo(Technicians \X ScheduleClock, MaxJobs)}

GpsTables == SeqsUpTo(GpsRows, MaxPings)

ScheduleFiles ==
    {[exists |-> FALSE, rows |-> <<>>]}
        \cup {[exists |-> TRUE, rows |-> t] : t \in ScheduleTables}

GpsFiles ==
    {[exists |-> FALSE, rows |-> <<>>]}
        \cup {[exists |-> TRUE, rows |-> t] : t \in GpsTables}

----------------------------------------------------------------------------
(* The script, lines 111-266 *)

Init ==
    /\ schedule_csv \in ScheduleFiles
    /\ gps_csv \in GpsFiles
    /\ pc = "start"
    /\ schedules = NoFrame
    /\ gps_data = NoFrame
    /\ sidebar = <<>>
    /\ page = <<>>
    /\ selected_techs = {}
    /\ filtered_schedules = <<>>
    /\ actual_arrivals = <<>>
    /\ tech_gps = <<>>
    /\ n_calls = 0
    /\ fn = "none"
    /\ args = <<>>
    /\ ret = <<>>

\* load_data, lines 14-39, called at line 111
LoadData ==
    /\ pc = "start"
    /\ schedules' = IF schedule_csv.exists THEN Frame(schedule_csv.rows)
                    ELSE NoFrame
    /\ gps_data' = IF gps_csv.exists THEN Frame(gps_csv.rows) ELSE NoFrame
    /\ sidebar' =
          << IF schedule_csv.exists THEN "Loaded Schedule.csv from directory"
             ELSE "Schedule.csv not found in working directory",
             IF gps_csv.exists THEN "Loaded GPS.csv from directory"
             ELSE "GPS.csv not found in working directory" >>
    /\ pc' = "loaded"
    /\ UNCHANGED <<schedule_csv, gps_csv, page, selected_techs,
                   filtered_schedules, actual_arrivals, tech_gps, n_calls,
                   fn, args, ret>>

\* line 113 with 'or' for 'and'
BothLoaded_either == schedules.loaded \/ gps_data.loaded

\* line 113
BothLoaded == schedules.loaded /\ gps_data.loaded

\* line 113 false: nothing below it runs
SkipAnalysis ==
    /\ pc = "loaded"
    /\ ~BothLoaded
    /\ pc' = "idle"
    /\ UNCHANGED <<schedule_csv, gps_csv, schedules, gps_data, sidebar, page,
                   selected_techs, filtered_schedules, actual_arrivals,
                   tech_gps, n_calls, fn, args, ret>>

\* line 131
all_technicians(rows) == {rows[k].technician_id : k \in DOMAIN rows}

\* lines 114-136: the timestamp columns are converted in place, and the user
\* picks any of the schedule's technicians
ConvertAndSelect ==
    /\ pc = "loaded"
    /\ BothLoaded
    /\ schedules' =
          Frame([k \in DOMAIN schedules.rows |->
                    [schedules.rows[k] EXCEPT
                        !.scheduled_start = to_datetime(@)]])
    /\ gps_data' =
          Frame([k \in DOMAIN gps_data.rows |->
                    [gps_data.rows[k] EXCEPT !.timestamp = to_datetime(@)]])
    /\ page' = Append(page, "Data loaded successfully!")
    /\ \E picked \in SUBSET all_technicians(schedules.rows) :
          selected_techs' = picked
    /\ pc' = "selected"
    /\ UNCHANGED <<schedule_csv, gps_csv, sidebar, filtered_schedules,
                   actual_arrivals, tech_gps, n_calls, fn, args, ret>>

\* line 138 always true
HasSelection_always == TRUE

\* line 138
HasSelection == selected_techs # {}

\* lines 262-263
NoSelection ==
    /\ pc = "selected"
    /\ ~HasSelection
    /\ page' = Append(page,
                  "Please select at least one technician to analyze.")
    /\ pc' = "warned"
    /\ UNCHANGED <<schedule_csv, gps_csv, schedules, gps_data, sidebar,
                   selected_techs, filtered_schedules, actual_arrivals,
                   tech_gps, n_calls, fn, args, ret>>

\* lines 138-148
FilterSchedules ==
    /\ pc = "selected"
    /\ HasSelection
    /\ LET isin(row) == row.technician_id \in selected_techs
       IN  filtered_schedules' = SelectSeq(schedules.rows, isin)
    /\ actual_arrivals' = <<>>
    /\ page' = Append(page, "Analyzing arrivals...")
    /\ pc' = "loop"
    /\ UNCHANGED <<schedule_csv, gps_csv, schedules, gps_data, sidebar,
                   selected_techs, tech_gps, n_calls, fn, args, ret>>

\* one iteration of the loop with the 'distance' column written to gps_data
\* itself
ResolveJob_inplace ==
    /\ pc = "loop"
    /\ Len(actual_arrivals) < Len(filtered_schedules)
    /\ LET job == filtered_schedules[Len(actual_arrivals) + 1]
           local == TechGps(gps_data.rows, job.technician_id,
                            job.job_latitude, job.job_longitude,
                            job.scheduled_start)
       IN  /\ tech_gps' = local
           /\ actual_arrivals' = Append(actual_arrivals, ArrivalOf(local))
           /\ gps_data' = Frame(TechGps(gps_data.rows, job.technician_id,
                                   job.job_latitude, job.job_longitude,
                                   job.scheduled_start))
    /\ n_calls' = n_calls + 1
    /\ UNCHANGED <<schedule_csv, gps_csv, pc, schedules, sidebar, page,
                   selected_techs, filtered_schedules, fn, args, ret>>

\* lines 150-162: one iteration of the loop, the call of find_arrival_time
\* (lines 52-82) included
ResolveJob ==
    /\ pc = "loop"
    /\ Len(actual_arrivals) < Len(filtered_schedules)
    /\ LET job == filtered_schedules[Len(actual_arrivals) + 1]
           local == TechGps(gps_data.rows, job.technician_id,
                            job.job_latitude, job.job_longitude,
                            job.scheduled_start)
       IN  /\ tech_gps' = local
           /\ actual_arrivals' = Append(actual_arrivals, ArrivalOf(local))
    /\ n_calls' = n_calls + 1
    /\ UNCHANGED <<schedule_csv, gps_csv, pc, schedules, gps_data, sidebar,
                   page, selected_techs, filtered_schedules, fn, args, ret>>

\* line 165: a list of None alone makes a column of dtype object; a list with
\* a Timestamp in it makes a datetime64 column with NaT for None
IsObjectColumn(values) == \A k \in DOMAIN values : values[k] = None

\* lines 168-171 for one row of a datetime64 column
DelayMinutes(actual_arrival, scheduled_start) ==
    IF actual_arrival = None THEN NaN
    ELSE [num |-> actual_arrival - scheduled_start, den |-> 60]

WithArrival(row, arrival) ==
    [technician_id |-> row.technician_id, job_id |-> row.job_id,
     job_latitude |-> row.job_latitude, job_longitude |-> row.job_longitude,
     scheduled_start |-> row.scheduled_start, actual_arrival |-> arrival]

WithResult(row, arrival) ==
    [technician_id |-> row.technician_id, job_id |-> row.job_id,
     job_latitude |-> row.job_latitude, job_longitude |-> row.job_longitude,
     scheduled_start |-> row.scheduled_start, actual_arrival |-> arrival,
     delay_minutes |-> DelayMinutes(arrival, row.scheduled_start),
     status |-> get_arrival_status(
                    DelayMinutes(arrival, row.scheduled_start))]

\* lines 165-178: the loop is over and the three columns are added
ComputeResults ==
    /\ pc = "loop"
    /\ Len(actual_arrivals) = Len(filtered_schedules)
    /\ ~IsObjectColumn(actual_arrivals)
    /\ filtered_schedules' =
          [k \in DOMAIN filtered_schedules |->
              WithResult(filtered_schedules[k], actual_arrivals[k])]
    /\ page' = Append(page, "Analysis complete!")
    /\ pc' = "done"
    /\ UNCHANGED <<schedule_csv, gps_csv, schedules, gps_data, sidebar,
                   selected_techs, actual_arrivals, tech_gps, n_calls,
                   fn, args, ret>>

\* lines 165-171 and 265-266: the subtraction of line 169 raises TypeError on
\* a column of dtype object, and the handler of line 265 reports it
ProcessingError ==
    /\ pc = "loop"
    /\ Len(actual_arrivals) = Len(filtered_schedules)
    /\ IsObjectColumn(actual_arrivals)
    /\ filtered_schedules' =
          [k \in DOMAIN filtered_schedules |->
              WithArrival(filtered_schedules[k], actual_arrivals[k])]
    /\ page' = Append(page, "Error processing data")
    /\ pc' = "error"
    /\ UNCHANGED <<schedule_csv, gps_csv, schedules, gps_data, sidebar,
                   selected_techs, actual_arrivals, tech_gps, n_calls,
                   fn, args, ret>>

Next ==
    \/ LoadData
    \/ SkipAnalysis
    \/ ConvertAndSelect
    \/ NoSelection
    \/ FilterSchedules
    \/ ResolveJob
    \/ ComputeResults
    \/ ProcessingError

Spec == Init /\ [][Next]_vars

----------------------------------------------------------------------------
(* The three functions applied on their own to arguments of bounded sets *)

ArgCoords == {0, 3, 4, 6, 8}

\* fractions of a minute: whole seconds, thousandths, and whole minutes
ArgDelays ==
    {[num |-> n, den |-> 1] : n \in {-200, -6, -5, -4, 0, 5, 6, 30, 31, 500}}
        \cup {[num |-> n, den |-> 60] :
                 n \in {-301, -300, -299, 299, 300, 301, 1799, 1800, 1801}}
        \cup {[num |-> n, den |-> 1000] :
                 n \in {-5001, -5000, -4999, 4999, 5000, 5001, 29999, 30000,
                        30001}}
        \cup {NaN}

\* sites, and pings' places 0 m, 100 m (6-8-10) and 100.5 m from the first
\* site
ArgSites == {<<SiteLat, SiteLon>>, <<SiteLat + 6, SiteLon + 8>>}
ArgPlaces ==
    {<<SiteLat, SiteLon>>, <<SiteLat + 6, SiteLon + 8>>,
     <<SiteLat + 10, SiteLon + 1>>}

ArgSchedule == {to_datetime(<<9, 0, 0>>), to_datetime(<<9, 0, 1>>)}
ArgTimes ==
    {to_datetime(c) : c \in {<<6, 59, 59>>, <<7, 0, 0>>, <<9, 5, 0>>,
                             <<11, 0, 0>>, <<11, 0, 1>>}}

ArgPings ==
    {[technician_id |-> t, timestamp |-> ts, latitude |-> p[1],
      longitude |-> p[2]] :
        t \in Technicians, ts \in ArgTimes, p \in ArgPlaces}

DistanceArgs ==
    [lat1 : ArgCoords, lon1 : ArgCoords, lat2 : ArgCoords, lon2 : ArgCoords]

StatusArgs == [delay_minutes : ArgDelays]

ArrivalArgs ==
    {[gps_data |-> g, tech_id |-> t, job_lat |-> s[1], job_lon |-> s[2],
      scheduled_time |-> st] :
        g \in SeqsUpTo(ArgPings, MaxArgPings), t \in Technicians,
        s \in ArgSites, st \in ArgSchedule}

InitCalls ==
    /\ schedule_csv = [exists |-> FALSE, rows |-> <<>>]
    /\ gps_csv = [exists |-> FALSE, rows |-> <<>>]
    /\ pc = "call"
    /\ schedules = NoFrame
    /\ gps_data = NoFrame
    /\ sidebar = <<>>
    /\ page = <<>>
    /\ selected_techs = {}
    /\ filtered_schedules = <<>>
    /\ actual_arrivals = <<>>
    /\ tech_gps = <<>>
    /\ n_calls = 0
    /\ ret = <<>>
    /\ \/ fn = "calculate_distance" /\ args \in DistanceArgs
       \/ fn = "find_arrival_time" /\ args \in ArrivalArgs
       \/ fn = "get_arrival_status" /\ args \in StatusArgs

CallDistance ==
    /\ pc = "call"
    /\ fn = "calculate_distance"
    /\ ret' = <<calculate_distance(args.lat1, args.lon1, args.lat2,
                                   args.lon2)>>
    /\ pc' = "returned"
    /\ UNCHANGED <<schedule_csv, gps_csv, schedules, gps_data, sidebar, page,
                   selected_techs, filtered_schedules, actual_arrivals,
                   tech_gps, n_calls, fn, args>>

CallArrival ==
    /\ pc = "call"
    /\ fn = "find_arrival_time"
    /\ ret' = <<find_arrival_time(args.gps_data, args.tech_id, args.job_lat,
                                  args.job_lon, args.scheduled_time)>>
    /\ pc' = "returned"
    /\ UNCHANGED <<schedule_csv, gps_csv, schedules, gps_data, sidebar, page,
                   selected_techs, filtered_schedules, actual_arrivals,
                   tech_gps, n_calls, fn, args>>

CallStatus ==
    /\ pc = "call"
    /\ fn = "get_arrival_status"
    /\ ret' = <<get_arrival_status(args.delay_minutes)>>
    /\ pc' = "returned"
    /\ UNCHANGED <<schedule_csv, gps_csv, schedules, gps_data, sidebar, page,
                   selected_techs, filtered_schedules, actual_arrivals,
                   tech_gps, n_calls, fn, args>>

NextCalls == CallDistance \/ CallArrival \/ CallStatus

SpecCalls == InitCalls /\ [][NextCalls]_vars

----------------------------------------------------------------------------
(* What the claims speak of, stated apart from the code *)

\* A and B are at most m meters apart
WithinMeters(latA, lonA, latB, lonB, m) ==
    ((latA - latB) ^ 2 + (lonA - lonB) ^ 2)
        * (MetersPerDegree \div GridPerDegree) ^ 2 <= m ^ 2

TwoHours == 2 * 60 * 60

\* the timestamps of the pings of tech at most two hours from start and at
\* most 100 m from the site
Qualifying(pings, tech, lat, lon, start) ==
    {pings[k].timestamp : k \in
        {j \in DOMAIN pings :
            /\ pings[j].technician_id = tech
            /\ pings[j].timestamp >= start - TwoHours
            /\ pings[j].timestamp <= start + TwoHours
            /\ WithinMeters(pings[j].latitude, pings[j].longitude, lat, lon,
                            100)}}

Returned(name) == fn = name /\ pc = "returned"

ArgQualifying ==
    Qualifying(args.gps_data, args.tech_id, args.job_lat, args.job_lon,
               args.scheduled_time)

\* C1: find_arrival_time returns the least timestamp among the technician's
\* pings that are inside [scheduled_start - 2h, scheduled_start + 2h] and at
\* most 100 m from the site, and None exactly when there is no such ping.
C1_EarliestQualifyingPing ==
    Returned("find_arrival_time") =>
        IF ArgQualifying = {} THEN ret[1] = None
        ELSE /\ ret[1] \in ArgQualifying
             /\ \A t \in ArgQualifying : ret[1] <= t

\* two qualifying pings, the earlier one second in the file and exactly
\* 100 m from the site, and it is the one returned
C1_Witness ==
    /\ Returned("find_arrival_time")
    /\ Len(args.gps_data) = 2
    /\ Cardinality(ArgQualifying) = 2
    /\ args.gps_data[2].timestamp < args.gps_data[1].timestamp
    /\ ret[1] = args.gps_data[2].timestamp
    /\ calculate_distance(args.gps_data[2].latitude,
           args.gps_data[2].longitude, args.job_lat, args.job_lon) = 100

\* the technician's pings at most 100 m from the site, whatever their time
ArgCloseTimes ==
    {args.gps_data[k].timestamp : k \in
        {j \in DOMAIN args.gps_data :
            /\ args.gps_data[j].technician_id = args.tech_id
            /\ WithinMeters(args.gps_data[j].latitude,
                            args.gps_data[j].longitude, args.job_lat,
                            args.job_lon, 100)}}

\* C2: the window is inclusive on both bounds: a close ping at exactly
\* scheduled_start - 2h is returned, one at exactly scheduled_start + 2h is
\* returned unless an earlier one qualifies; and nothing outside the window
\* is ever returned, even when it is the only close ping.
C2_WindowInclusive ==
    Returned("find_arrival_time") =>
        LET lo == args.scheduled_time - TwoHours
            hi == args.scheduled_time + TwoHours
        IN  /\ ret[1] # None => (lo <= ret[1] /\ ret[1] <= hi)
            /\ lo \in ArgCloseTimes => ret[1] = lo
            /\ hi \in ArgCloseTimes => (ret[1] # None /\ ret[1] <= hi)
            /\ (\A t \in ArgCloseTimes : t < lo \/ t > hi) => ret[1] = None

\* the ping at exactly scheduled_start + 2h is returned although the
\* technician was also close one second later
C2_Witness ==
    /\ Returned("find_arrival_time")
    /\ ret[1] = args.scheduled_time + TwoHours
    /\ args.scheduled_time + TwoHours + 1 \in ArgCloseTimes

Statuses == {"Early", "On Time", "Late", "Very Late", "No GPS Data"}

\* C3: get_arrival_status returns 'No GPS Data' for an absent delay, and for
\* a number d 'Early' iff d <= -5, 'On Time' iff -5 < d <= 5, 'Late' iff
\* 5 < d <= 30, and 'Very Late' iff d > 30.
C3_StatusBoundaries ==
    Returned("get_arrival_status") =>
        LET d == args.delay_minutes
        IN  /\ ret[1] \in Statuses
            /\ (ret[1] = "No GPS Data") <=> (d.den = 0)
            /\ d.den # 0 =>
                /\ (ret[1] = "Early") <=> (d.num <= (-5) * d.den)
                /\ (ret[1] = "On Time") <=>
                       ((-5) * d.den < d.num /\ d.num <= 5 * d.den)
                /\ (ret[1] = "Late") <=>
                       (5 * d.den < d.num /\ d.num <= 30 * d.den)
                /\ (ret[1] = "Very Late") <=> (d.num > 30 * d.den)

\* a delay of exactly 30 minutes is Late
C3_Witness ==
    /\ Returned("get_arrival_status")
    /\ args.delay_minutes = [num |-> 1800, den |-> 60]
    /\ ret[1] = "Late"

\* C9: calculate_distance gives the same distance for (A, B) and (B, A),
\* and 0 for A = B, so distance <= 100 does not depend on the order of the
\* two points.
C9_DistanceSymmetric ==
    Returned("calculate_distance") =>
        LET back == calculate_distance(args.lat2, args.lon2, args.lat1,
                                       args.lon1)
        IN  /\ ret[1] = back
            /\ (args.lat1 = args.lat2 /\ args.lon1 = args.lon2) => ret[1] = 0
            /\ (ret[1] <= 100) <=> (back <= 100)

\* two points 6 and 8 steps apart, 100 m from each other
C9_Witness ==
    /\ Returned("calculate_distance")
    /\ args.lat1 - args.lat2 = 6
    /\ args.lon2 - args.lon1 = 8
    /\ ret[1] = 100

----------------------------------------------------------------------------
(* The run of the script *)

Finished == pc \in {"done", "error"}

JobQualifying(row) ==
    Qualifying(gps_data.rows, row.technician_id, row.job_latitude,
               row.job_longitude, row.scheduled_start)

ResultColumns == {"actual_arrival", "delay_minutes", "status"}

\* C4: when the loop is over the run has not entered the error path, and
\* every selected job without a qualifying ping has actual_arrival unknown,
\* delay_minutes absent and status 'No GPS Data'.
C4_NoMatchIsNoError ==
    Finished =>
        /\ pc # "error"
        /\ \A k \in DOMAIN filtered_schedules :
              LET row == filtered_schedules[k]
              IN  JobQualifying(row) = {} =>
                    /\ row.actual_arrival = None
                    /\ row.delay_minutes.den = 0
                    /\ row.status = "No GPS Data"

\* C5: a call of find_arrival_time leaves the ping collection as it was,
\* records and columns.
C5_PingsNeverMutated ==
    [][n_calls' # n_calls =>
          /\ gps_data' = gps_data
          /\ \A k \in DOMAIN gps_data'.rows :
                DOMAIN gps_data'.rows[k] =
                    {"technician_id", "timestamp", "latitude", "longitude"}]_vars

\* after two calls the last call's copy holds a 'distance' column and the
\* shared pings hold none
C5_Witness ==
    /\ n_calls = 2
    /\ tech_gps # <<>>
    /\ "distance" \in DOMAIN tech_gps[1]
    /\ Len(gps_data.rows) = 2
    /\ \A k \in DOMAIN gps_data.rows : "distance" \notin DOMAIN gps_data.rows[k]
    /\ gps_data.rows =
          [k \in DOMAIN gps_csv.rows |->
              [gps_csv.rows[k] EXCEPT !.timestamp = to_datetime(@)]]

\* C6: when the loop is over each selected job carries the arrival, delay
\* and status that its own technician, site and scheduled start give with
\* the ping set, whatever the other selected jobs are.
C6_ResultOfOwnJobOnly ==
    Finished =>
        \A k \in DOMAIN filtered_schedules :
            LET row == filtered_schedules[k]
                own == find_arrival_time(gps_data.rows, row.technician_id,
                           row.job_latitude, row.job_longitude,
                           row.scheduled_start)
            IN  /\ ResultColumns \subseteq DOMAIN row
                /\ row.actual_arrival = own
                /\ row.delay_minutes = DelayMinutes(own, row.scheduled_start)
                /\ row.status =
                      get_arrival_status(
                          DelayMinutes(own, row.scheduled_start))

\* C7: with both files loaded and no technician selected, the resolver is
\* never called, no result is made, the notice is shown and the error path
\* is not entered.
C7_EmptySelection ==
    (schedules.loaded /\ gps_data.loaded /\ selected_techs = {}
        /\ pc \notin {"start", "loaded"}) =>
        /\ pc \in {"selected", "warned"}
        /\ n_calls = 0
        /\ actual_arrivals = <<>>
        /\ filtered_schedules = <<>>
        /\ pc = "warned" =>
              page = <<"Data loaded successfully!",
                       "Please select at least one technician to analyze.">>

\* technicians were on offer and none was selected
C7_Witness ==
    /\ pc = "warned"
    /\ Len(schedules.rows) = 2
    /\ gps_data.rows # <<>>
    /\ selected_techs = {}

\* C8: when a file is missing, load_data reports each missing file, loads
\* the other one, and nothing below line 113 runs.
C8_MissingFile ==
    (pc # "start" /\ ~(schedule_csv.exists /\ gps_csv.exists)) =>
        /\ sidebar[1] = IF schedule_csv.exists
                        THEN "Loaded Schedule.csv from directory"
                        ELSE "Schedule.csv not found in working directory"
        /\ sidebar[2] = IF gps_csv.exists
                        THEN "Loaded GPS.csv from directory"
                        ELSE "GPS.csv not found in working directory"
        /\ schedules = IF schedule_csv.exists THEN Frame(schedule_csv.rows)
                       ELSE NoFrame
        /\ gps_data = IF gps_csv.exists THEN Frame(gps_csv.rows) ELSE NoFrame
        /\ pc \in {"loaded", "idle"}
        /\ n_calls = 0
        /\ actual_arrivals = <<>>
        /\ filtered_schedules = <<>>
        /\ page = <<>>

\* the schedule is missing, the pings are loaded all the same, and the run
\* has stopped
C8_Witness ==
    /\ pc = "idle"
    /\ ~schedule_csv.exists
    /\ gps_data.loaded
    /\ Len(gps_data.rows) = 2

\* the technician's pings at most 100 m from the job's site, whatever their
\* time
JobCloseTimes(row) ==
    {gps_data.rows[k].timestamp : k \in
        {j \in DOMAIN gps_data.rows :
            /\ gps_data.rows[j].technician_id = row.technician_id
            /\ WithinMeters(gps_data.rows[j].latitude,
                            gps_data.rows[j].longitude, row.job_latitude,
                            row.job_longitude, 100)}}

\* C10: in every result, delay_minutes is present exactly when
\* actual_arrival is, is actual_arrival - scheduled_start in minutes and
\* lies in [-120, 120]; 'Very Late' means 30 < delay <= 120, and a job whose
\* technician is first at the site more than two hours late is 'No GPS
\* Data'.
C10_DelayWithinWindow ==
    pc = "done" =>
        \A k \in DOMAIN filtered_schedules :
            LET row == filtered_schedules[k]
                d == row.delay_minutes
            IN  /\ (d.den = 0) <=> (row.actual_arrival = None)
                /\ d.den # 0 =>
                      /\ d.den = 60
                      /\ d.num = row.actual_arrival - row.scheduled_start
                      /\ (-120) * d.den <= d.num
                      /\ d.num <= 120 * d.den
                /\ row.status = "Very Late" =>
                      (30 * d.den < d.num /\ d.num <= 120 * d.den)
                /\ (\A t \in JobCloseTimes(row) :
                        t > row.scheduled_start + TwoHours) =>
                      row.status = "No GPS Data"

\* one job is Very Late by exactly 120 minutes, and another, whose
\* technician reached the site a second after the window, has no GPS data
C10_Witness ==
    /\ pc = "done"
    /\ \E k \in DOMAIN filtered_schedules :
          /\ filtered_schedules[k].status = "Very Late"
          /\ filtered_schedules[k].delay_minutes = [num |-> 7200, den |-> 60]
    /\ \E k \in DOMAIN filtered_schedules :
          /\ filtered_schedules[k].status = "No GPS Data"
          /\ JobCloseTimes(filtered_schedules[k]) # {}

====
